---------------------------- MODULE Spec2Model ----------------------------
(***************************************************************************)
(* gryds/transformers/bspline.py : BSplineTransformation.                  *)
(*                                                                         *)
(* Numbers.  Every real number of the program (a coordinate, a grid        *)
(* value, cval) is an integer count of quanta, One quanta making 1.0.      *)
(* Coordinates are multiples of One \div 2 and grid values multiples of    *)
(* One * One, so that for ndim <= 2 every product and every interpolation  *)
(* weight of orders 0 and 1 is exact: on such inputs floating point        *)
(* arithmetic of any precision is exact too, and the cast to DTYPE keeps   *)
(* the values and changes the dtype only.                                  *)
(*                                                                         *)
(* Arrays are records [dtype, shape, data] with data in row-major order.   *)
(* A point batch is [dtype, rows] with rows[d][i] the d-th coordinate of   *)
(* point i: the (ndim x N) layout _transform_points receives.              *)
(***************************************************************************)
EXTENDS Integers, Sequences, FiniteSets

\* ------------------------------------------------------------- bounds
\* Largest length of one axis of a grid.
MaxAxis == 2
\* Largest number of points in one batch.
MaxPoints == 1
\* Number of _transform_points calls that run at once (SpecThreads).
MaxCalls == 2
\* Quanta per unit (the resolution of the fixed-point numbers).
One == 4

VARIABLES
    args,        \* the constructor's arguments: [grid (address), order, mode, cval]
    heap,        \* the arrays that exist, by address (1: the caller's raw grid)
    self,        \* <<>> before construction, <<transform>> after a successful one
    ctor,        \* <<>> while __init__ has not run, else <<its outcome>>
    supplied,    \* <<>>, or <<the raw grid as it was when __init__ ran>>
    call,        \* <<>>, or <<the _transform_points call that has just returned>>
    precisionFailed, \* an earlier call on this transform failed its dtype assertion
    threads      \* the concurrent calls of SpecThreads, by call number

vars == <<args, heap, self, ctor, supplied, call, precisionFailed, threads>>

\* ------------------------------------------------------------ helpers
RECURSIVE Prod(_)
Prod(s) == IF s = <<>> THEN 1 ELSE Head(s) * Prod(Tail(s))

RECURSIVE Pow(_, _)
Pow(b, n) == IF n = 0 THEN 1 ELSE b * Pow(b, n - 1)

SeqsOfLen(S, n) == [1..n -> S]

\* from ..config import DTYPE : the one precision of the library.
DTYPE == "float32"
OtherDtype == "float64"

\* ------------------------------------------------------ the constructor
\* np.array(grid, dtype=DTYPE): a NEW array (np.array copies by default) holding
\* the grid's values cast to DTYPE.  Returns the heap with the copy and its address.
np_array_alias(h, src) == [heap |-> [h EXCEPT ![src].dtype = DTYPE], addr |-> src]

np_array(h, src) ==
    [heap |-> Append(h, [dtype |-> DTYPE, shape |-> h[src].shape, data |-> h[src].data]),
     addr |-> Len(h) + 1]

\* `a is not b` on two Python ints: object identity.  Different values are
\* different objects; equal values are the same object when the interpreter
\* caches them (CPython: -5..256), and either way otherwise.
IsNotOutcomes(a, b) ==
    IF a # b THEN {TRUE}
    ELSE IF a \in -5..256 THEN {FALSE}
    ELSE BOOLEAN

\* grid.ndim - 1, the value the first axis is compared with (line 45).
ExpectedFirstAxisOffByOne(grid) == Len(grid.shape)

ExpectedFirstAxis(grid) == Len(grid.shape) - 1

\* The ValueError of lines 46-47: the message template and the values
\* str.format substitutes into it.
ShapeErrorNamingActual(grid) ==
    [kind |-> "ValueError",
     template |-> "First axis of grid should be equal to transform's ndim {}.",
     values |-> <<grid.shape[1]>>]

ShapeError(grid) ==
    [kind |-> "ValueError",
     template |-> "First axis of grid should be equal to transform's ndim {}.",
     values |-> <<Len(grid.shape) - 1>>]

\* Transformation.__init__(ndim, parameters) of .base: stores both.
Transformation__init__(obj, ndim, parameters) ==
    [bspline_order |-> obj.bspline_order, mode |-> obj.mode, cval |-> obj.cval,
     ndim |-> ndim, parameters |-> parameters]

\* Lines 48-50: order, mode and cval are stored as given, unvalidated.
InitAttributesDefaulting(order, mode, cval) ==
    [bspline_order |-> IF order < 0 THEN 3 ELSE order,
     mode |-> IF mode \in {"constant", "nearest", "mirror", "reflect", "wrap"}
              THEN mode ELSE "mirror",
     cval |-> cval]

InitAttributes(order, mode, cval) ==
    [bspline_order |-> order, mode |-> mode, cval |-> cval]

\* ------------------------------------- scipy.ndimage.map_coordinates
\* The boundary modes map_coordinates knows.
Modes == {"constant", "nearest", "mirror", "reflect", "wrap"}

Clamp(i, len) == IF i < 0 THEN 0 ELSE IF i > len - 1 THEN len - 1 ELSE i

\* Where a coordinate x (quanta) along an axis of len samples is read, per mode:
\* [inside |-> FALSE] when mode is constant and x lies beyond the extent,
\* else [inside |-> TRUE, at |-> the coordinate the samples are read at].
\*   mirror : reflect about the centre of the edge samples (period 2 len - 2);
\*   reflect: reflect about the outer edge of the edge samples (period 2 len);
\*   nearest: clamp to the extent;
\*   wrap   : periodic, the last sample overlapping the first (period len - 1);
\*   constant: cval beyond the extent, no interpolation beyond the edges.
map_coordinate(x, len, mode) ==
    LET last == (len - 1) * One
    IN  IF mode = "constant"
        THEN IF x < 0 \/ x > last THEN [inside |-> FALSE, at |-> 0]
             ELSE [inside |-> TRUE, at |-> x]
        ELSE IF mode = "nearest"
        THEN [inside |-> TRUE, at |-> IF x < 0 THEN 0 ELSE IF x > last THEN last ELSE x]
        ELSE IF len <= 1 THEN [inside |-> TRUE, at |-> 0]
        ELSE IF mode = "mirror"
        THEN LET y == x % (2 * last)
             IN  [inside |-> TRUE, at |-> IF y > last THEN 2 * last - y ELSE y]
        ELSE IF mode = "reflect"
        THEN LET P == 2 * len * One
                 y == x % P
             IN  [inside |-> TRUE,
                  at |-> IF 2 * y <= 2 * len * One - One THEN y
                         ELSE IF 2 * y >= 2 * P - One THEN y - P
                         ELSE P - y - One]
        ELSE \* wrap
             [inside |-> TRUE,
              at |-> IF x < 0 THEN x + last * (((-x) \div last) + 1)
                     ELSE IF x > last THEN x - last * (x \div last)
                     ELSE x]

\* The two samples a coordinate cc reads along one axis and their weights (in
\* quanta, summing to One).  order 1: linear between floor(cc) and floor(cc)+1;
\* order 0: the sample at floor(cc + 1/2).  Indices beyond the extent (reached
\* with weight 0 at the last sample, or under reflect) take the edge sample.
Support(cc, len, order) ==
    IF order = 0
    THEN LET r == (2 * cc + One) \div (2 * One)
         IN  << <<Clamp(r, len), One>>, <<Clamp(r, len), 0>> >>
    ELSE LET lo == cc \div One
             f  == cc % One
         IN  << <<Clamp(lo, len), One - f>>, <<Clamp(lo + 1, len), f>> >>

\* The weighted sum over the supports of axes k.., at row-major offset `off`.
RECURSIVE WeightedSum(_, _, _, _)
WeightedSum(input, sup, k, off) ==
    IF k > Len(sup) THEN input.data[off + 1]
    ELSE LET a == sup[k][1]
             b == sup[k][2]
         IN  (IF a[2] = 0 THEN 0
              ELSE a[2] * WeightedSum(input, sup, k + 1, off * input.shape[k] + a[1]))
           + (IF b[2] = 0 THEN 0
              ELSE b[2] * WeightedSum(input, sup, k + 1, off * input.shape[k] + b[1]))

\* One output value: `input` interpolated at the position q (one coordinate
\* per axis of input).
SampleAt(input, q, order, mode, cval) ==
    LET n  == Len(input.shape)
        at == [k \in 1..n |-> map_coordinate(q[k], input.shape[k], mode)]
    IN  IF \E k \in 1..n : ~at[k].inside THEN cval
        ELSE LET sup == [k \in 1..n |-> Support(at[k].at, input.shape[k], order)]
             IN  WeightedSum(input, sup, 1, 0) \div Pow(One, n)

\* nd.map_coordinates(input, coordinates, order=, mode=, cval=): one value per
\* column of coordinates, in input's dtype; RuntimeError for a spline order
\* outside 0..5 or an unknown mode, raised before anything is computed.
\* (The model draws its valid orders from 0 and 1.)
map_coordinates(input, coordinates, order, mode, cval) ==
    IF order < 0 \/ order > 5
    THEN [kind |-> "RuntimeError", why |-> "spline order not supported", value |-> <<>>]
    ELSE IF mode \notin Modes
    THEN [kind |-> "RuntimeError", why |-> "boundary mode not supported", value |-> <<>>]
    ELSE [kind |-> "ok", why |-> "",
          value |-> [i \in 1..Len(coordinates[1]) |->
                        SampleAt(input,
                                 [k \in 1..Len(coordinates) |-> coordinates[k][i]],
                                 order, mode, cval)]]

\* ------------------------------------------------- _transform_points
\* Line 64: assert points.dtype == DTYPE.
DtypeAssertedNot(points) == TRUE

DtypeAsserted(points) == points.dtype = DTYPE

\* Lines 70-71: points * (np.array(self.parameters.shape[1:]) - 1)[:, None].
ScaledPointsByShape(rows, shape) ==
    [d \in 1..Len(rows) |-> [i \in 1..Len(rows[d]) |-> rows[d][i] * shape[d + 1]]]

ScaledPoints(rows, shape) ==
    [d \in 1..Len(rows) |-> [i \in 1..Len(rows[d]) |-> rows[d][i] * (shape[d + 1] - 1)]]

\* Line 75: iterating self.parameters yields its sub-arrays along axis 0.
Component(grid, d) ==
    LET size == Prod(Tail(grid.shape))
    IN  [dtype |-> grid.dtype, shape |-> Tail(grid.shape),
         data |-> SubSeq(grid.data, (d - 1) * size + 1, d * size)]

\* Line 82: points + np.array(displacement), elementwise.
PointsPlusConcatenated(rows, scaled, displacement) == rows \o displacement

PointsPlusScaled(rows, scaled, displacement) ==
    [d \in 1..Len(rows) |-> [i \in 1..Len(rows[d]) |-> scaled[d][i] + displacement[d][i]]]

PointsPlus(rows, scaled, displacement) ==
    [d \in 1..Len(rows) |-> [i \in 1..Len(rows[d]) |-> rows[d][i] + displacement[d][i]]]

\* numpy's result type of two floating arrays.
Promote(a, b) == IF a = b THEN a ELSE "float64"

\* Lines 75-81: the loop over the components, from the displacement list so far.
\* `sampled` counts the map_coordinates calls made.
RECURSIVE SampleLoop(_, _, _, _)
SampleLoop(t, grid, scaled, displacement) ==
    IF Len(displacement) = Len(grid.shape) - 1
    THEN [kind |-> "ok", displacement |-> displacement, sampled |-> Len(displacement)]
    ELSE LET r == map_coordinates(Component(grid, Len(displacement) + 1), scaled,
                                  t.bspline_order, t.mode, t.cval)
         IN  IF r.kind # "ok"
             THEN [kind |-> r.kind, displacement |-> <<>>,
                   sampled |-> Len(displacement) + 1]
             ELSE SampleLoop(t, grid, scaled, Append(displacement, r.value))

\* Lines 82-84: the result and the assertion on its dtype.
Finish(points, scaled, displacement, gridDtype, sampled) ==
    LET dtype == Promote(points.dtype, gridDtype)
    IN  IF dtype # DTYPE
        THEN [kind |-> "AssertionError", dtype |-> "", rows |-> <<>>, sampled |-> sampled]
        ELSE [kind |-> "ok", dtype |-> dtype,
              rows |-> PointsPlus(points.rows, scaled, displacement),
              sampled |-> sampled]

\* _transform_points(self, points), lines 63-84, run alone: what it returns or
\* raises, [kind, dtype, rows, sampled].
transform_points(t, h, points) ==
    IF ~DtypeAsserted(points)
    THEN [kind |-> "AssertionError", dtype |-> "", rows |-> <<>>, sampled |-> 0]
    ELSE LET grid   == h[t.parameters]
             scaled == ScaledPoints(points.rows, grid.shape)
             loop   == SampleLoop(t, grid, scaled, <<>>)
         IN  IF loop.kind # "ok"
             THEN [kind |-> loop.kind, dtype |-> "", rows |-> <<>>,
                   sampled |-> loop.sampled]
             ELSE Finish(points, scaled, loop.displacement, grid.dtype, loop.sampled)

\* ---------------------------------------------------------- the inputs
\* Ranks of the raw grids: a rank r grid makes an (r - 1)-dimensional transform.
Ranks == {1, 2, 3}

Shapes == UNION {SeqsOfLen(1..MaxAxis, r) : r \in Ranks}

\* The values a raw grid is filled with: all zero; the same shift for a whole
\* component, +1 on odd and -1 on even axes; all different.
Fills == {"zero", "shift", "ramp"}

GridData(shape, fill) ==
    LET size == Prod(Tail(shape))
    IN  [j \in 1..Prod(shape) |->
            IF fill = "zero" THEN 0
            ELSE IF fill = "shift"
            THEN IF (((j - 1) \div size) + 1) % 2 = 1 THEN One * One ELSE -(One * One)
            ELSE j * One * One]

Orders == {-1, 0, 1}
ModeArgs == Modes \cup {"bogus"}
CVals == {0, 5 * One}

\* Coordinates of query points: below [0, 1), inside it, and at its end (the
\* coordinate of the last control point).
Coords == {-(One \div 2), One \div 2, One}

Batches(ndim) ==
    {[dtype |-> t, rows |-> r] :
        t \in {DTYPE, OtherDtype},
        r \in UNION {SeqsOfLen(SeqsOfLen(Coords, n), ndim) : n \in 0..MaxPoints}}

\* ------------------------------------------------------ the lifecycle
Init ==
    /\ \E shape \in Shapes, fill \in Fills :
          heap = <<[dtype |-> OtherDtype, shape |-> shape, data |-> GridData(shape, fill)]>>
    /\ \E order \in Orders, mode \in ModeArgs, cval \in CVals :
          args = [grid |-> 1, order |-> order, mode |-> mode, cval |-> cval]
    /\ self = <<>>
    /\ ctor = <<>>
    /\ supplied = <<>>
    /\ call = <<>>
    /\ precisionFailed = FALSE
    /\ threads = <<>>

\* BSplineTransformation.__init__(grid, order, mode, cval), lines 44-54.
BSplineTransformation__init__ ==
    /\ ctor = <<>>
    /\ LET made == np_array(heap, args.grid)
           grid == made.heap[made.addr]
       IN  \E differs \in IsNotOutcomes(grid.shape[1], ExpectedFirstAxis(grid)) :
              IF differs
              THEN /\ ctor' = <<ShapeError(grid)>>
                   /\ UNCHANGED <<self, heap>>
              ELSE /\ self' = <<Transformation__init__(
                                   InitAttributes(args.order, args.mode, args.cval),
                                   grid.shape[1], made.addr)>>
                   /\ heap' = made.heap
                   /\ ctor' = <<[kind |-> "ok", template |-> "", values |-> <<>>]>>
    /\ supplied' = <<heap[args.grid]>>
    /\ UNCHANGED <<args, call, precisionFailed, threads>>

\* One whole call self._transform_points(points), lines 63-84, by one caller.
TransformPoints ==
    /\ self # <<>>
    /\ call = <<>>
    /\ \E points \in Batches(self[1].ndim) :
          LET out == transform_points(self[1], heap, points)
          IN  /\ call' = <<[points |-> points, out |-> out,
                           afterPrecisionFailure |-> precisionFailed]>>
              /\ precisionFailed' =
                    (precisionFailed \/ (out.kind = "AssertionError" /\ out.sampled = 0))
    /\ UNCHANGED <<args, heap, self, ctor, supplied, threads>>

\* The caller takes the result (or the exception) of the call.
Return ==
    /\ call # <<>>
    /\ call' = <<>>
    /\ UNCHANGED <<args, heap, self, ctor, supplied, precisionFailed, threads>>

\* The caller writes into the raw grid it passed to the constructor.
MutateRawGrid ==
    /\ ctor # <<>>
    /\ heap[args.grid].data = supplied[1].data
    /\ heap' = [heap EXCEPT ![args.grid].data[1] = @ + One * One]
    /\ UNCHANGED <<args, self, ctor, supplied, call, precisionFailed, threads>>

Next ==
    \/ BSplineTransformation__init__
    \/ TransformPoints
    \/ Return
    \/ MutateRawGrid

Spec == Init /\ [][Next]_vars

\* ------------------------------------------------- concurrent calls
\* Line 76: displacement.append(...), on the list of the call that runs it.
AppendDisplacementShared(ths, c, v) ==
    [k \in DOMAIN ths |->
        IF ths[k].pc = "loop" THEN [ths[k] EXCEPT !.displacement = Append(@, v)]
        ELSE ths[k]]

AppendDisplacement(ths, c, v) == [ths EXCEPT ![c].displacement = Append(@, v)]

\* The transforms and batches of the concurrent calls.
ThreadShapes == {<<1, 2>>, <<2, 2, 2>>}
ThreadConfigs ==
    {[order |-> 1, mode |-> "mirror", cval |-> 0],
     [order |-> 0, mode |-> "constant", cval |-> 5 * One],
     [order |-> 1, mode |-> "bogus", cval |-> 0]}
ThreadCoords == {-(One \div 2), One \div 2}
ThreadBatches(ndim) ==
    {[dtype |-> t, rows |-> r] :
        t \in {DTYPE, OtherDtype}, r \in SeqsOfLen(SeqsOfLen(ThreadCoords, 1), ndim)}

NoOutcome == [kind |-> "", dtype |-> "", rows |-> <<>>, sampled |-> 0]

IdleThread ==
    [pc |-> "idle", points |-> [dtype |-> "", rows |-> <<>>],
     scaled_points |-> <<>>, displacement |-> <<>>, sampled |-> 0, out |-> NoOutcome]

\* A transform as __init__ leaves it, and MaxCalls callers about to call.
InitThreads ==
    /\ \E shape \in ThreadShapes, cfg \in ThreadConfigs :
          LET raw  == [dtype |-> OtherDtype, shape |-> shape,
                       data |-> GridData(shape, "ramp")]
              made == np_array(<<raw>>, 1)
          IN  /\ args = [grid |-> 1, order |-> cfg.order, mode |-> cfg.mode,
                         cval |-> cfg.cval]
              /\ heap = made.heap
              /\ self = <<Transformation__init__(
                             InitAttributes(cfg.order, cfg.mode, cfg.cval),
                             shape[1], made.addr)>>
              /\ supplied = <<raw>>
    /\ ctor = <<[kind |-> "ok", template |-> "", values |-> <<>>]>>
    /\ call = <<>>
    /\ precisionFailed = FALSE
    /\ threads = [c \in 1..MaxCalls |-> IdleThread]

\* Lines 63-71: the call is entered, the dtype asserted, the points rescaled.
Begin(c) ==
    /\ threads[c].pc = "idle"
    /\ \E points \in ThreadBatches(self[1].ndim) :
          IF ~DtypeAsserted(points)
          THEN threads' = [threads EXCEPT ![c] =
                  [@ EXCEPT !.pc = "done", !.points = points,
                            !.out = [kind |-> "AssertionError", dtype |-> "",
                                     rows |-> <<>>, sampled |-> 0]]]
          ELSE threads' = [threads EXCEPT ![c] =
                  [@ EXCEPT !.pc = "loop", !.points = points,
                            !.scaled_points =
                                ScaledPoints(points.rows, heap[self[1].parameters].shape)]]
    /\ UNCHANGED <<args, heap, self, ctor, supplied, call, precisionFailed>>

\* Lines 75-81: one iteration of the loop, one component sampled.
Sample(c) ==
    /\ threads[c].pc = "loop"
    /\ Len(threads[c].displacement) < self[1].ndim
    /\ LET t == threads[c]
           r == map_coordinates(
                    Component(heap[self[1].parameters], Len(t.displacement) + 1),
                    t.scaled_points, self[1].bspline_order, self[1].mode, self[1].cval)
       IN  IF r.kind # "ok"
           THEN threads' = [threads EXCEPT ![c] =
                   [@ EXCEPT !.pc = "done", !.sampled = @ + 1,
                             !.out = [kind |-> r.kind, dtype |-> "", rows |-> <<>>,
                                      sampled |-> t.sampled + 1]]]
           ELSE threads' = [AppendDisplacement(threads, c, r.value)
                               EXCEPT ![c].sampled = @ + 1]
    /\ UNCHANGED <<args, heap, self, ctor, supplied, call, precisionFailed>>

\* Lines 82-84: the loop is over, the result is formed and returned.
FinishCall(c) ==
    /\ threads[c].pc = "loop"
    /\ Len(threads[c].displacement) = self[1].ndim
    /\ LET t == threads[c]
       IN  threads' = [threads EXCEPT ![c] =
              [@ EXCEPT !.pc = "done",
                        !.out = Finish(t.points, t.scaled_points, t.displacement,
                                       heap[self[1].parameters].dtype, t.sampled)]]
    /\ UNCHANGED <<args, heap, self, ctor, supplied, call, precisionFailed>>

NextThreads ==
    \E c \in 1..MaxCalls :
        \/ Begin(c)
        \/ Sample(c)
        \/ FinishCall(c)

SpecThreads == InitThreads /\ [][NextThreads]_vars

\* ------------------------------------------------------------ claims
\* What the claims speak of.
Constructed == self # <<>>
Failed == ctor # <<>> /\ ctor[1].kind # "ok"
Grid == heap[self[1].parameters]
ValidConfig == args.order \in 0..5 /\ args.mode \in Modes
Returned == call # <<>>
Points == call[1].points
Out == call[1].out
NumPoints == Len(Points.rows[1])

\* The transform is as __init__ made it from the arguments supplied.
AsConstructed ==
    /\ self[1].ndim = Len(supplied[1].shape) - 1
    /\ self[1].bspline_order = args.order
    /\ self[1].mode = args.mode
    /\ self[1].cval = args.cval
    /\ Grid.shape = supplied[1].shape
    /\ Grid.data = supplied[1].data
    /\ Grid.dtype = DTYPE

\* Point i rescaled: its k-th coordinate times (shape[k] - 1).
Rescaled(i) == [k \in 1..self[1].ndim |-> Points.rows[k][i] * (Grid.shape[k + 1] - 1)]

\* values[d, node]: the stored displacement of component d at a node.
RECURSIVE RowMajor(_, _, _, _)
RowMajor(node, shape, k, off) ==
    IF k > Len(node) THEN off
    ELSE RowMajor(node, shape, k + 1, off * shape[k] + node[k])
ValueAt(d, node) ==
    Grid.data[(d - 1) * Prod(Tail(Grid.shape)) + RowMajor(node, Tail(Grid.shape), 1, 0) + 1]

\* Rescaled point i is exactly an in-bounds node of the grid.
AtNode(i) ==
    \A k \in 1..self[1].ndim :
        /\ Rescaled(i)[k] % One = 0
        /\ Rescaled(i)[k] \div One \in 0..(Grid.shape[k + 1] - 1)

\* Rescaled point i lies within the extent of the grid on every axis.
WithinExtent(i) ==
    \A k \in 1..self[1].ndim :
        Rescaled(i)[k] >= 0 /\ Rescaled(i)[k] <= (Grid.shape[k + 1] - 1) * One

\* C1: construction succeeds if and only if the length of the grid's leading
\* axis equals its rank minus one; when it differs construction fails with
\* ValueError and no transform exists; when it matches the transform's ndim is
\* that value.
C1_ShapeValidation ==
    /\ ctor = <<>> => self = <<>>
    /\ ctor # <<>> =>
          LET g == supplied[1]
          IN  /\ (ctor[1].kind = "ok") <=> (g.shape[1] = Len(g.shape) - 1)
              /\ ctor[1].kind = "ok" => Constructed /\ self[1].ndim = Len(g.shape) - 1
              /\ ctor[1].kind # "ok" => ctor[1].kind = "ValueError" /\ self = <<>>

\* A rank 3 grid with a leading axis of length 1 was refused.
C1_Witness ==
    /\ Failed
    /\ Len(supplied[1].shape) = 3
    /\ supplied[1].shape[1] = 1
    /\ self = <<>>

\* C2: for a call with points of the transform's precision (on a transform
\* whose order and mode the sampling accepts), the call returns, for every
\* point i and axis d, points[d][i] plus component d of the grid sampled at the
\* position whose k-th coordinate is points[k][i] * (shape[k] - 1); points
\* outside [0, 1) are mapped like any other.
C2_PointwiseMapping ==
    (Returned /\ Points.dtype = DTYPE /\ ValidConfig) =>
        /\ Out.kind = "ok"
        /\ Len(Out.rows) = self[1].ndim
        /\ \A d \in 1..self[1].ndim :
              /\ Len(Out.rows[d]) = NumPoints
              /\ \A i \in 1..NumPoints :
                    Out.rows[d][i] =
                        Points.rows[d][i]
                        + SampleAt(Component(Grid, d), Rescaled(i),
                                   self[1].bspline_order, self[1].mode, self[1].cval)

\* A 2-D call returned a displaced point that lies below [0, 1) on an axis that
\* has two control points.
C2_Witness ==
    /\ Returned /\ Out.kind = "ok"
    /\ self[1].ndim = 2
    /\ NumPoints = 1
    /\ Grid.shape[2] = 2
    /\ Points.rows[1][1] < 0
    /\ Out.rows[1][1] # Points.rows[1][1]
    /\ Out.rows[2][1] # Points.rows[2][1]

\* C3: node exactness.  With order >= 1, a point whose rescaled coordinates are
\* exactly an in-bounds node is displaced on axis d by values[d, node].
C3_NodeExactness ==
    (Returned /\ Points.dtype = DTYPE /\ ValidConfig /\ self[1].bspline_order >= 1) =>
        /\ Out.kind = "ok"
        /\ \A i \in 1..NumPoints :
              AtNode(i) =>
                 \A d \in 1..self[1].ndim :
                    Out.rows[d][i] =
                        Points.rows[d][i]
                        + ValueAt(d, [k \in 1..self[1].ndim |-> Rescaled(i)[k] \div One])

\* The scenario of the claim on a 2 x 2 grid of control points: +1 on axis 0
\* and -1 on axis 1 everywhere, order 1, mode mirror; the point (1, 1) is node
\* (1, 1) and is returned as (2, 0).
C3_Witness ==
    /\ Returned /\ Out.kind = "ok"
    /\ self[1].bspline_order = 1 /\ self[1].mode = "mirror"
    /\ Grid.shape = <<2, 2, 2>>
    /\ \A j \in 1..4 : Grid.data[j] = One * One /\ Grid.data[4 + j] = -(One * One)
    /\ Points.rows = << <<One>>, <<One>> >>
    /\ AtNode(1)
    /\ Out.rows = << <<One + One * One>>, <<One - One * One>> >>

AllZero == \A j \in 1..Len(Grid.data) : Grid.data[j] = 0

\* C4 as claimed: with an all-zero grid the call returns its points, for every
\* order, every boundary mode and every cval, also for points beyond [0, 1).
C4_ZeroIsIdentity_AsClaimed ==
    (Returned /\ Points.dtype = DTYPE /\ ValidConfig /\ AllZero) =>
        Out.kind = "ok" /\ Out.rows = Points.rows

\* C4: with an all-zero grid the call returns its points, for every order and
\* every boundary mode, provided that under mode constant cval is 0 or every
\* rescaled point lies within the extent of the grid.
C4_ZeroIsIdentity ==
    (/\ Returned /\ Points.dtype = DTYPE /\ ValidConfig /\ AllZero
     /\ \/ self[1].mode # "constant"
        \/ self[1].cval = 0
        \/ \A i \in 1..NumPoints : WithinExtent(i)) =>
        Out.kind = "ok" /\ Out.rows = Points.rows

\* A point below [0, 1) came back unchanged from an all-zero grid whose cval
\* is not 0, under a mode other than constant.
C4_Witness ==
    /\ Returned /\ Out.kind = "ok" /\ AllZero
    /\ self[1].mode = "wrap"
    /\ self[1].cval # 0
    /\ NumPoints = 1
    /\ Grid.shape[2] = 2
    /\ Points.rows[1][1] < 0
    /\ Out.rows = Points.rows

\* C5: a call that returns gives back as many points as it received, each with
\* ndim components, in the same precision; the empty batch is returned empty.
C5_BatchSizePreserved ==
    /\ (Returned /\ Out.kind = "ok") =>
          /\ Len(Out.rows) = self[1].ndim
          /\ \A d \in 1..self[1].ndim : Len(Out.rows[d]) = NumPoints
          /\ Out.dtype = Points.dtype
    /\ (Returned /\ Points.dtype = DTYPE /\ ValidConfig /\ NumPoints = 0) =>
          /\ Out.kind = "ok"
          /\ Out.rows = Points.rows

\* The empty batch came back empty from a 2-D transform.
C5_Witness ==
    /\ Returned /\ Out.kind = "ok"
    /\ self[1].ndim = 2
    /\ NumPoints = 0
    /\ Out.rows = << <<>>, <<>> >>

\* C6: a call whose points are not of the transform's precision fails on the
\* dtype assertion before anything is sampled and returns nothing; the
\* transform is as it was constructed, and a later call with points of the
\* right precision (on a transform whose order and mode the sampling accepts)
\* returns its result.
C6_PrecisionMismatch ==
    /\ (Returned /\ Points.dtype # DTYPE) =>
          /\ Out.kind = "AssertionError"
          /\ Out.sampled = 0
          /\ Out.rows = <<>>
          /\ AsConstructed
    /\ (precisionFailed /\ Constructed) => AsConstructed
    /\ (Returned /\ call[1].afterPrecisionFailure /\ Points.dtype = DTYPE /\ ValidConfig) =>
          /\ Out.kind = "ok"
          /\ Len(Out.rows) = self[1].ndim

\* After a call that failed on the precision of its points, a call with points
\* of the right precision returned a displaced point.
C6_Witness ==
    /\ Returned /\ call[1].afterPrecisionFailure
    /\ Points.dtype = DTYPE
    /\ Out.kind = "ok"
    /\ NumPoints = 1
    /\ Out.rows # Points.rows

\* C7: with an unknown mode or a negative order (and a grid of the right
\* shape) construction succeeds and stores order, mode and cval as given; every
\* later call fails and returns nothing, a call with points of the transform's
\* precision with the RuntimeError of the sampling, raised in its first
\* sampling; the transform stays as constructed.
C7_ConfigErrorsAtMappingTime ==
    (~ValidConfig /\ ctor # <<>> /\ supplied[1].shape[1] = Len(supplied[1].shape) - 1) =>
        /\ ctor[1].kind = "ok"
        /\ Constructed
        /\ AsConstructed
        /\ Returned =>
              /\ Out.kind # "ok"
              /\ Out.rows = <<>>
              /\ Points.dtype = DTYPE => Out.kind = "RuntimeError" /\ Out.sampled = 1

\* On a transform made with the mode "bogus" a call failed in the sampling,
\* after an earlier call on it had failed too.
C7_Witness ==
    /\ Constructed
    /\ self[1].mode = "bogus"
    /\ self[1].bspline_order = 1
    /\ Returned
    /\ Out.kind = "RuntimeError"
    /\ call[1].afterPrecisionFailure

\* C8: once constructed, the transform holds the grid values and shape, the
\* ndim, order, mode and cval supplied at construction, whatever calls were
\* made and whatever the caller wrote into its raw grid since.
C8_GridFixedAtConstruction ==
    Constructed => AsConstructed

\* The caller has changed its raw grid, and a call made afterwards returned.
C8_Witness ==
    /\ Constructed
    /\ heap[args.grid].data # supplied[1].data
    /\ Returned /\ Out.kind = "ok"
    /\ NumPoints = 1
    /\ Out.rows # Points.rows

\* Each call that has returned holds what it returns when run alone.
ResultsAsAlone ==
    \A c \in DOMAIN threads :
        threads[c].pc = "done" =>
            threads[c].out = transform_points(self[1], heap, threads[c].points)

\* A step changes the locals of one call only, and neither the grid nor the
\* configuration.
Isolation ==
    /\ heap' = heap
    /\ self' = self
    /\ \A c, k \in DOMAIN threads :
          (threads'[c] # threads[c] /\ threads'[k] # threads[k]) => c = k

\* C9: when several calls run on one transform at once, under every
\* interleaving of their steps each call returns what it returns when run
\* alone, and no step of a call touches another call's points or displacement
\* list, or the grid.
C9_ConcurrentCallsAreIndependent ==
    []ResultsAsAlone /\ [][Isolation]_vars

\* Two calls with different points have both returned, each a displaced point.
C9_Witness ==
    /\ threads # <<>>
    /\ threads[1].pc = "done" /\ threads[2].pc = "done"
    /\ threads[1].out.kind = "ok" /\ threads[2].out.kind = "ok"
    /\ threads[1].points # threads[2].points
    /\ threads[1].out.rows # threads[2].out.rows
    /\ self[1].ndim = 2

\* The number occurs among the values substituted into the message.
Names(error, n) == \E j \in 1..Len(error.values) : error.values[j] = n

=============================================================================
